---- MODULE Spec2Model ----
(***************************************************************************)
(* Model of the JSON mapping executor of json/v3/json_trans_v3.go:         *)
(* TransformJSON, processCollectionMapping, convertValue,                  *)
(* applyEnumMapping, convertTime and setValue.                             *)
(*                                                                         *)
(* Text is a sequence of one-character strings, so that the string         *)
(* operations of the code (Contains, Split, ReplaceAll, ToLower,           *)
(* HasPrefix, HasSuffix, Sprintf) are computed character by character.     *)
(* Integers are decimal digit texts: timestamps exceed the checker's       *)
(* integer range, and a number's text is what ends up in the document.     *)
(* A JSON value (and a Go interface{} value) is a record [t, v]:           *)
(*   t = "null" | "bool" | "num" | "str" | "arr" | "obj" | "raw" | "none"  *)
(* "raw" is a fragment of a document that is not valid JSON text, "none"   *)
(* is gjson's non-existent Result / Go's nil interface.                    *)
(***************************************************************************)
EXTENDS Integers, Sequences, FiniteSets, TLC

\* ------------------------------------------------------------------ bounds

\* longest rule list of a configuration
MaxRules == 2

\* ------------------------------------------------------------------ text

Digits == <<"0", "1", "2", "3", "4", "5", "6", "7", "8", "9">>

IsDigit(c) == \E k \in 1..10 : Digits[k] = c

DigitVal(c) == (CHOOSE k \in 1..10 : Digits[k] = c) - 1

\* strings.ToLower on one byte
LowerChar(c) ==
  CASE c = "A" -> "a" [] c = "B" -> "b" [] c = "C" -> "c" [] c = "D" -> "d"
    [] c = "E" -> "e" [] c = "F" -> "f" [] c = "G" -> "g" [] c = "H" -> "h"
    [] c = "I" -> "i" [] c = "J" -> "j" [] c = "K" -> "k" [] c = "L" -> "l"
    [] c = "M" -> "m" [] c = "N" -> "n" [] c = "O" -> "o" [] c = "P" -> "p"
    [] c = "Q" -> "q" [] c = "R" -> "r" [] c = "S" -> "s" [] c = "T" -> "t"
    [] c = "U" -> "u" [] c = "V" -> "v" [] c = "W" -> "w" [] c = "X" -> "x"
    [] c = "Y" -> "y" [] c = "Z" -> "z" [] OTHER -> c

ToLower(s) == [k \in 1..Len(s) |-> LowerChar(s[k])]

HasPrefix(s, p) == Len(s) >= Len(p) /\ SubSeq(s, 1, Len(p)) = p

HasSuffix(s, p) == Len(s) >= Len(p) /\ SubSeq(s, Len(s) - Len(p) + 1, Len(s)) = p

\* strings.Index, 1-based; 0 when sub does not occur
IndexOf(s, sub) ==
  LET hits == {k \in 1..(Len(s) - Len(sub) + 1) : SubSeq(s, k, k + Len(sub) - 1) = sub}
  IN IF hits = {} THEN 0 ELSE CHOOSE k \in hits : \A j \in hits : k <= j

Contains(s, sub) == IndexOf(s, sub) # 0

RECURSIVE Split(_, _)
Split(s, sep) ==
  LET k == IndexOf(s, sep)
  IN IF k = 0 THEN <<s>>
     ELSE <<SubSeq(s, 1, k - 1)>> \o Split(SubSeq(s, k + Len(sep), Len(s)), sep)

RECURSIVE Join(_, _)
Join(parts, sep) ==
  IF Len(parts) = 0 THEN <<>>
  ELSE IF Len(parts) = 1 THEN parts[1]
  ELSE parts[1] \o sep \o Join(Tail(parts), sep)

ReplaceAll(s, old, new) == Join(Split(s, old), new)

\* fmt.Sprintf("%d", n) for n >= 0
RECURSIVE Itoa(_)
Itoa(n) == IF n < 10 THEN <<Digits[n + 1]>> ELSE Itoa(n \div 10) \o <<Digits[(n % 10) + 1]>>

IsNumeric(s) == Len(s) > 0 /\ \A k \in 1..Len(s) : IsDigit(s[k])

\* value of a short digit text (an array index)
RECURSIVE Atoi(_)
Atoi(s) == IF Len(s) = 0 THEN 0 ELSE Atoi(SubSeq(s, 1, Len(s) - 1)) * 10 + DigitVal(s[Len(s)])

\* byte order of the characters the model uses
Alphabet ==
  <<"\"", "#", ",", "-", ".", "/", "0", "1", "2", "3", "4", "5", "6", "7", "8", "9", ":",
    "A", "B", "C", "D", "E", "F", "G", "H", "I", "J", "K", "L", "M", "N", "O", "P", "Q",
    "R", "S", "T", "U", "V", "W", "X", "Y", "Z", "[", "\\", "]", "_",
    "a", "b", "c", "d", "e", "f", "g", "h", "i", "j", "k", "l", "m", "n", "o", "p", "q",
    "r", "s", "t", "u", "v", "w", "x", "y", "z", "{", "}">>

Ord(c) == CHOOSE k \in 1..Len(Alphabet) : Alphabet[k] = c

\* a < b as Go compares strings
RECURSIVE TextLess(_, _)
TextLess(a, b) ==
  IF Len(b) = 0 THEN FALSE
  ELSE IF Len(a) = 0 THEN TRUE
  ELSE IF a[1] = b[1] THEN TextLess(Tail(a), Tail(b))
  ELSE Ord(a[1]) < Ord(b[1])

\* ------------------------------------------------------------ JSON values

None == [t |-> "none", v |-> <<>>]
Null == [t |-> "null", v |-> <<>>]
Bool(b) == [t |-> "bool", v |-> b]
Num(d) == [t |-> "num", v |-> d]
Str(s) == [t |-> "str", v |-> s]
Arr(a) == [t |-> "arr", v |-> a]
Obj(o) == [t |-> "obj", v |-> o]
Raw(s) == [t |-> "raw", v |-> s]

\* gjson.Result.Exists
Exists(r) == r.t # "none"

\* gjson.Result.IsArray
IsArray(r) == r.t = "arr"

\* the text of a string inside a document: quotes and backslashes escaped
RECURSIVE Escape(_)
Escape(s) ==
  IF Len(s) = 0 THEN <<>>
  ELSE (IF s[1] = "\"" \/ s[1] = "\\" THEN <<"\\", s[1]>> ELSE <<s[1]>>) \o Escape(Tail(s))

Quote(s) == <<"\"">> \o Escape(s) \o <<"\"">>

\* the document text of a value
RECURSIVE Serialize(_)
RECURSIVE SerializeElems(_)
RECURSIVE SerializeMembers(_)
Serialize(x) ==
  CASE x.t = "null" -> <<"n", "u", "l", "l">>
    [] x.t = "none" -> <<"n", "u", "l", "l">>
    [] x.t = "bool" -> IF x.v THEN <<"t", "r", "u", "e">> ELSE <<"f", "a", "l", "s", "e">>
    [] x.t = "num" -> x.v
    [] x.t = "str" -> Quote(x.v)
    [] x.t = "raw" -> x.v
    [] x.t = "arr" -> <<"[">> \o SerializeElems(x.v) \o <<"]">>
    [] x.t = "obj" -> <<"{">> \o SerializeMembers(x.v) \o <<"}">>

SerializeElems(a) ==
  IF Len(a) = 0 THEN <<>>
  ELSE IF Len(a) = 1 THEN Serialize(a[1])
  ELSE Serialize(a[1]) \o <<",">> \o SerializeElems(Tail(a))

SerializeMembers(o) ==
  IF Len(o) = 0 THEN <<>>
  ELSE Quote(o[1][1]) \o <<":">> \o Serialize(o[1][2])
       \o (IF Len(o) = 1 THEN <<>> ELSE <<",">> \o SerializeMembers(Tail(o)))

\* ------------------------------------------------- parsing a JSON literal
\* Compact JSON text (no blanks, no escapes, integers only) read into a value:
\* [ok, val, next], next the position after the value.

ParseFail == [ok |-> FALSE, val |-> None, next |-> 0]

\* the end of the run of digits starting at position i
RECURSIVE DigitsEnd(_, _)
DigitsEnd(s, i) == IF i <= Len(s) /\ IsDigit(s[i]) THEN DigitsEnd(s, i + 1) ELSE i

ParseWord(s, i, w, val) ==
  IF i + Len(w) - 1 <= Len(s) /\ SubSeq(s, i, i + Len(w) - 1) = w
  THEN [ok |-> TRUE, val |-> val, next |-> i + Len(w)]
  ELSE ParseFail

ParseString(s, i) ==
  LET ends == {j \in (i + 1)..Len(s) : s[j] = "\""}
  IN IF ends = {} THEN ParseFail
     ELSE LET j == CHOOSE e \in ends : \A f \in ends : e <= f
          IN IF \E k \in (i + 1)..(j - 1) : s[k] = "\\" THEN ParseFail
             ELSE [ok |-> TRUE, val |-> Str(SubSeq(s, i + 1, j - 1)), next |-> j + 1]

ParseNumber(s, i) ==
  LET d == IF s[i] = "-" THEN i + 1 ELSE i
      e == DigitsEnd(s, d)
  IN IF e = d \/ (e - d > 1 /\ s[d] = "0") THEN ParseFail
     ELSE [ok |-> TRUE, val |-> Num(SubSeq(s, i, e - 1)), next |-> e]

RECURSIVE ParseValue(_, _)
RECURSIVE ParseElems(_, _, _)
RECURSIVE ParseMembers(_, _, _)
ParseValue(s, i) ==
  IF i > Len(s) THEN ParseFail
  ELSE CASE s[i] = "{" ->
              IF i + 1 <= Len(s) /\ s[i + 1] = "}"
              THEN [ok |-> TRUE, val |-> Obj(<<>>), next |-> i + 2]
              ELSE ParseMembers(s, i + 1, <<>>)
         [] s[i] = "[" ->
              IF i + 1 <= Len(s) /\ s[i + 1] = "]"
              THEN [ok |-> TRUE, val |-> Arr(<<>>), next |-> i + 2]
              ELSE ParseElems(s, i + 1, <<>>)
         [] s[i] = "\"" -> ParseString(s, i)
         [] s[i] = "t" -> ParseWord(s, i, <<"t", "r", "u", "e">>, Bool(TRUE))
         [] s[i] = "f" -> ParseWord(s, i, <<"f", "a", "l", "s", "e">>, Bool(FALSE))
         [] s[i] = "n" -> ParseWord(s, i, <<"n", "u", "l", "l">>, Null)
         [] s[i] = "-" \/ IsDigit(s[i]) -> ParseNumber(s, i)
         [] OTHER -> ParseFail

ParseElems(s, i, acc) ==
  LET r == ParseValue(s, i)
  IN IF ~r.ok \/ r.next > Len(s) THEN ParseFail
     ELSE IF s[r.next] = "]"
          THEN [ok |-> TRUE, val |-> Arr(Append(acc, r.val)), next |-> r.next + 1]
     ELSE IF s[r.next] = "," THEN ParseElems(s, r.next + 1, Append(acc, r.val))
     ELSE ParseFail

ParseMembers(s, i, acc) ==
  IF i > Len(s) \/ s[i] # "\"" THEN ParseFail
  ELSE LET k == ParseString(s, i)
       IN IF ~k.ok \/ k.next > Len(s) \/ s[k.next] # ":" THEN ParseFail
          ELSE LET r == ParseValue(s, k.next + 1)
               IN IF ~r.ok \/ r.next > Len(s) THEN ParseFail
                  ELSE IF s[r.next] = "}"
                       THEN [ok |-> TRUE, val |-> Obj(Append(acc, <<k.val.v, r.val>>)),
                             next |-> r.next + 1]
                  ELSE IF s[r.next] = ","
                       THEN ParseMembers(s, r.next + 1, Append(acc, <<k.val.v, r.val>>))
                  ELSE ParseFail

\* s is, as a whole, the text of one JSON value
ParsesWhole(s) == LET r == ParseValue(s, 1) IN r.ok /\ r.next = Len(s) + 1

\* s is syntactically a JSON object literal or a JSON array literal
IsJSONLiteral(s) == ParsesWhole(s) /\ ParseValue(s, 1).val.t \in {"obj", "arr"}

\* a value holds no fragment that is not JSON: its text is a valid document
RECURSIVE IsValidJSON(_)
IsValidJSON(x) ==
  CASE x.t = "raw" -> FALSE
    [] x.t = "arr" -> \A k \in 1..Len(x.v) : IsValidJSON(x.v[k])
    [] x.t = "obj" -> \A k \in 1..Len(x.v) : IsValidJSON(x.v[k][2])
    [] OTHER -> TRUE

\* ------------------------------------------------------------- gjson.Get

Dot == <<".">>

\* the first member of object members o with key k; None when there is none
Member(o, k) ==
  LET hits == {j \in 1..Len(o) : o[j][1] = k}
  IN IF hits = {} THEN None ELSE o[CHOOSE j \in hits : \A h \in hits : j <= h][2]

\* a path, split at its dots, resolved in a value. On an array the segment "#"
\* is the element count when it is last and otherwise collects, over the
\* elements, the values the rest of the path finds.
RECURSIVE GetPath(_, _)
RECURSIVE GetEach(_, _)
GetPath(x, segs) ==
  IF Len(segs) = 0 THEN x
  ELSE LET p == Head(segs)
           rest == Tail(segs)
       IN CASE x.t = "obj" ->
                 LET m == Member(x.v, p) IN IF Exists(m) THEN GetPath(m, rest) ELSE None
            [] x.t = "arr" ->
                 IF p = <<"#">>
                 THEN IF Len(rest) = 0 THEN Num(Itoa(Len(x.v))) ELSE Arr(GetEach(x.v, rest))
                 ELSE IF IsNumeric(p) /\ Atoi(p) < Len(x.v)
                      THEN GetPath(x.v[Atoi(p) + 1], rest)
                      ELSE None
            [] OTHER -> None

GetEach(a, rest) ==
  IF Len(a) = 0 THEN <<>>
  ELSE LET r == GetPath(a[1], rest)
       IN (IF Exists(r) THEN <<r>> ELSE <<>>) \o GetEach(Tail(a), rest)

\* gjson.Get(json, path)
Get(json, path) == GetPath(json, Split(path, Dot))

\* ------------------------------------------------------ sjson.Set / SetRaw

\* sjson's atoui: the segment is an array index
IsIndex(p) == \A k \in 1..Len(p) : IsDigit(p[k])

MinusOne == <<"-", "1">>

Nulls(n) == [k \in 1..n |-> Null]

\* sjson's isSimpleChar, over a whole path
IsSimplePath(path) == \A k \in 1..Len(path) : path[k] \notin {"|", "#", "@", "*", "?"}

\* sjson's appendBuild: the value that the missing rest of a path creates
RECURSIVE BuildValue(_, _)
BuildValue(rest, val) ==
  IF Len(rest) = 0 THEN val
  ELSE LET q == Head(rest)
       IN IF IsIndex(q) THEN Arr(Nulls(Atoi(q)) \o <<BuildValue(Tail(rest), val)>>)
          ELSE IF q = MinusOne THEN Arr(<<BuildValue(Tail(rest), val)>>)
          ELSE Obj(<< <<q, BuildValue(Tail(rest), val)>> >>)

\* x with the child that segment p addresses replaced by c
ReplaceChild(x, p, c) ==
  IF x.t = "obj"
  THEN LET j == CHOOSE h \in 1..Len(x.v) :
                  x.v[h][1] = p /\ \A g \in 1..(h - 1) : x.v[g][1] # p
       IN Obj([x.v EXCEPT ![j] = <<p, c>>])
  ELSE Arr([x.v EXCEPT ![Atoi(p) + 1] = c])

SetFail(x) == [ok |-> FALSE, doc |-> x]

\* sjson's appendRawPaths on the value x: [ok, doc]. A value that exists at the
\* first segment is replaced or descended into; otherwise the rest of the path
\* is built, appended to an object, or placed in an array after null padding.
\* A scalar on the way is overwritten by a fresh container; a non-numeric key
\* into an array is the error "cannot set array element for non-numeric key".
RECURSIVE SetPath(_, _, _)
SetPath(x, segs, val) ==
  LET p == Head(segs)
      rest == Tail(segs)
      child == GetPath(x, <<p>>)
  IN IF x.t \in {"obj", "arr"} /\ Exists(child)
     THEN IF Len(rest) = 0 THEN [ok |-> TRUE, doc |-> ReplaceChild(x, p, val)]
          ELSE LET r == SetPath(child, rest, val)
               IN IF r.ok THEN [ok |-> TRUE, doc |-> ReplaceChild(x, p, r.doc)]
                  ELSE SetFail(x)
     ELSE CASE x.t = "obj" ->
                 [ok |-> TRUE, doc |-> Obj(Append(x.v, <<p, BuildValue(rest, val)>>))]
            [] x.t = "arr" ->
                 IF IsIndex(p)
                 THEN [ok |-> TRUE,
                       doc |-> Arr(x.v \o Nulls(Atoi(p) - Len(x.v)) \o <<BuildValue(rest, val)>>)]
                 ELSE IF p = MinusOne
                      THEN [ok |-> TRUE, doc |-> Arr(Append(x.v, BuildValue(rest, val)))]
                      ELSE SetFail(x)
            [] x.t = "raw" ->
                 \* text that merely has the shape of a container: the new
                 \* member is spliced in before its last character
                 IF x.v[1] = "{"
                 THEN [ok |-> TRUE,
                       doc |-> Raw(SubSeq(x.v, 1, Len(x.v) - 1) \o <<",">> \o Quote(p)
                                   \o <<":">> \o Serialize(BuildValue(rest, val)) \o <<"}">>)]
                 ELSE IF IsIndex(p) \/ p = MinusOne
                      THEN [ok |-> TRUE,
                            doc |-> Raw(SubSeq(x.v, 1, Len(x.v) - 1) \o <<",">>
                                        \o Serialize(BuildValue(rest, val)) \o <<"]">>)]
                      ELSE SetFail(x)
            [] OTHER ->
                 IF IsIndex(p) THEN [ok |-> TRUE, doc |-> Arr(Nulls(Atoi(p)) \o <<BuildValue(rest, val)>>)]
                 ELSE [ok |-> TRUE, doc |-> Obj(<< <<p, BuildValue(rest, val)>> >>)]

\* sjson's set: an empty path is an error, a path with a query character that
\* resolves to nothing changes nothing, a simple path goes to appendRawPaths
SjsonSet(json, path, val) ==
  IF Len(path) = 0 THEN SetFail(json)
  ELSE IF ~IsSimplePath(path) THEN [ok |-> TRUE, doc |-> json]
  ELSE SetPath(json, Split(path, Dot), val)

\* sjson.SetRaw: the text goes into the document as it is. Text that is one
\* JSON value is that value; any other text is a fragment that is not JSON.
RawValue(text) == IF ParsesWhole(text) THEN ParseValue(text, 1).val ELSE Raw(text)

\* encoding/json.Marshal of a Go value: the keys of a map come out sorted
RECURSIVE InsertMember(_, _)
InsertMember(sorted, m) ==
  IF Len(sorted) = 0 THEN <<m>>
  ELSE IF TextLess(m[1], sorted[1][1]) THEN <<m>> \o sorted
  ELSE IF m[1] = sorted[1][1] THEN <<m>> \o Tail(sorted)
  ELSE <<sorted[1]>> \o InsertMember(Tail(sorted), m)

RECURSIVE Marshal(_)
RECURSIVE MarshalMembers(_, _)
Marshal(x) ==
  CASE x.t = "none" -> Null
    [] x.t = "arr" -> Arr([k \in 1..Len(x.v) |-> Marshal(x.v[k])])
    [] x.t = "obj" -> Obj(MarshalMembers(x.v, <<>>))
    [] OTHER -> x

MarshalMembers(o, acc) ==
  IF Len(o) = 0 THEN acc
  ELSE MarshalMembers(Tail(o), InsertMember(acc, <<o[1][1], Marshal(o[1][2])>>))

\* ------------------------------------------------- gjson.Result accessors

True4 == <<"t", "r", "u", "e">>
False5 == <<"f", "a", "l", "s", "e">>

\* a decimal text as an int64 prints: no leading zeros, no negative zero
RECURSIVE StripZeros(_)
StripZeros(d) == IF Len(d) > 1 /\ d[1] = "0" THEN StripZeros(Tail(d)) ELSE d

NormInt(s) ==
  IF Len(s) > 0 /\ s[1] = "-"
  THEN LET d == StripZeros(Tail(s)) IN IF d = <<"0">> THEN d ELSE <<"-">> \o d
  ELSE StripZeros(s)

\* gjson's parseInt succeeds on s
IsIntText(s) == IF Len(s) > 0 /\ s[1] = "-" THEN IsNumeric(Tail(s)) ELSE IsNumeric(s)

\* Result.String
ResultString(r) ==
  CASE r.t = "str" -> r.v
    [] r.t = "num" -> r.v
    [] r.t = "bool" -> IF r.v THEN True4 ELSE False5
    [] r.t \in {"arr", "obj"} -> Serialize(r)
    [] OTHER -> <<>>

\* Result.Int, and Result.Float on the integers the documents hold
ResultInt(r) ==
  CASE r.t = "num" -> NormInt(r.v)
    [] r.t = "str" -> IF IsIntText(r.v) THEN NormInt(r.v) ELSE <<"0">>
    [] r.t = "bool" -> IF r.v THEN <<"1">> ELSE <<"0">>
    [] OTHER -> <<"0">>

\* Result.Bool: strconv.ParseBool of the lower-cased string
ResultBool(r) ==
  CASE r.t = "bool" -> r.v
    [] r.t = "str" -> ToLower(r.v) \in {<<"1">>, <<"t">>, True4}
    [] r.t = "num" -> NormInt(r.v) # <<"0">>
    [] OTHER -> FALSE

\* Result.Value
ResultValue(r) == IF r.t = "null" THEN None ELSE r

\* the values Result.ForEach hands to its iterator, in order
ForEachValues(r) ==
  CASE r.t = "arr" -> r.v
    [] r.t = "obj" -> [k \in 1..Len(r.v) |-> r.v[k][2]]
    [] r.t = "none" -> <<>>
    [] OTHER -> <<r>>

\* ------------------------------------------------------------------ errors

Cause(kind, arg) == [kind |-> kind, arg |-> arg]

NoCause == Cause("nil", <<>>)

Error(stage, path, cause) == [stage |-> stage, path |-> path, cause |-> cause]

NoErr == Error("nil", <<>>, NoCause)

\* ------------------------------------------------------------ convertTime

Unix == <<"u", "n", "i", "x">>
UnixMs == <<"u", "n", "i", "x", "_", "m", "s">>

\* a decimal text is <= 2147483647
SecondsLimit == <<"2", "1", "4", "7", "4", "8", "3", "6", "4", "7">>

RECURSIVE DigitsLeq(_, _)
DigitsLeq(a, b) ==
  IF Len(a) = 0 THEN TRUE
  ELSE IF a[1] = b[1] THEN DigitsLeq(Tail(a), Tail(b))
  ELSE DigitVal(a[1]) < DigitVal(b[1])

NumLeq(a, b) ==
  IF a[1] = "-" THEN TRUE
  ELSE IF Len(a) # Len(b) THEN Len(a) < Len(b)
  ELSE DigitsLeq(a, b)

\* the comparison written with < for <=
IsSeconds_Strict(n) == NumLeq(n, SecondsLimit) /\ n # SecondsLimit

\* num <= 2147483647: the number is read as seconds
IsSeconds(n) == NumLeq(n, SecondsLimit)

\* an instant is kept as its milliseconds since the epoch
TimesThousand(n) == IF n = <<"0">> THEN n ELSE n \o <<"0", "0", "0">>

OverThousand(n) ==
  LET d == SubSeq(n, 1, Len(n) - 3)
  IN IF Len(d) = 0 \/ d = <<"-">> THEN <<"0">> ELSE d

\* time.Unix(int64(num), 0)
TimeUnix(n) == TimesThousand(n)

\* time.UnixMilli(int64(num))
TimeUnixMilli(n) == n

\* the layouts tried on a string, the rule's own first. Of the fixed list only
\* the date layout is kept: no other layout of the list parses the time texts
\* of the documents below.
DateLayout == <<"2", "0", "0", "6", "-", "0", "1", "-", "0", "2">>
DayFirstLayout == <<"2", "0", "0", "6", "-", "0", "2", "-", "0", "1">>
SampleDate == <<"2", "0", "2", "3", "-", "0", "6", "-", "0", "1">>

TimeFormats(m) == <<m.TimeFormat, DateLayout>>

\* time.Parse(format, timeStr): [ok, ms]
TimeParse(format, timeStr) ==
  IF timeStr = SampleDate /\ format = DateLayout
  THEN [ok |-> TRUE, ms |-> <<"1", "6", "8", "5", "5", "7", "7", "6", "0", "0", "0", "0", "0">>]
  ELSE IF timeStr = SampleDate /\ format = DayFirstLayout
  THEN [ok |-> TRUE, ms |-> <<"1", "6", "7", "2", "9", "6", "3", "2", "0", "0", "0", "0", "0">>]
  ELSE [ok |-> FALSE, ms |-> <<>>]

\* the first layout of the list, empty ones skipped, that parses timeStr
RECURSIVE ParseFirst(_, _)
ParseFirst(formats, timeStr) ==
  IF Len(formats) = 0 THEN [ok |-> FALSE, ms |-> <<>>]
  ELSE IF Len(formats[1]) = 0 THEN ParseFirst(Tail(formats), timeStr)
  ELSE LET r == TimeParse(formats[1], timeStr)
       IN IF r.ok THEN r ELSE ParseFirst(Tail(formats), timeStr)

UTC == <<"U", "T", "C">>
Shanghai == <<"A", "s", "i", "a", "/", "S", "h", "a", "n", "g", "h", "a", "i">>

\* time.LoadLocation(name) succeeds
LoadLocationOk(name) == name \in {UTC, Shanghai}

\* t.Format(layout) of the instant ms in a loaded zone, for the instants and
\* the layout the rules below format
TimeFormat(ms, layout) ==
  IF layout = DateLayout /\ ms = <<"1", "6", "2", "0", "0", "0", "0", "0", "0", "0", "0", "0", "0">>
  THEN <<"2", "0", "2", "1", "-", "0", "5", "-", "0", "3">>
  ELSE IF layout = DateLayout /\ ms = <<"1", "6", "8", "5", "5", "7", "7", "6", "0", "0", "0", "0", "0">>
  THEN SampleDate
  ELSE layout

\* the output of convertTime for the instant ms
TimeOutput(ms, m) ==
  IF m.TargetTimeFormat = Unix THEN Num(OverThousand(ms))
  ELSE IF m.TargetTimeFormat = UnixMs THEN Num(ms)
  ELSE IF Len(m.TargetTimeFormat) # 0 THEN Str(TimeFormat(ms, m.TargetTimeFormat))
  ELSE Num(ms)

\* convertTime: [ok, val, cause]
convertTime(sourceValue, m) ==
  LET parsed == IF sourceValue.t = "num"
                THEN [ok |-> TRUE,
                      ms |-> IF IsSeconds(NormInt(sourceValue.v))
                             THEN TimeUnix(NormInt(sourceValue.v))
                             ELSE TimeUnixMilli(NormInt(sourceValue.v))]
                ELSE ParseFirst(TimeFormats(m), ResultString(sourceValue))
  IN IF ~parsed.ok
     THEN [ok |-> FALSE, val |-> None, cause |-> Cause("time", ResultString(sourceValue))]
     ELSE IF Len(m.Timezone) # 0 /\ ~LoadLocationOk(m.Timezone)
     THEN [ok |-> FALSE, val |-> None, cause |-> Cause("timezone", m.Timezone)]
     ELSE [ok |-> TRUE, val |-> TimeOutput(parsed.ms, m), cause |-> NoCause]

\* ------------------------------------------------------- applyEnumMapping

\* the key a map key or the source string is compared by
EnumKey(m, key) == IF m.EnumIgnoreCase THEN ToLower(key) ELSE key

\* the entries of EnumMap whose key matches the source value
EnumMatches(sourceValue, m) ==
  {k \in 1..Len(m.EnumMap) : EnumKey(m, m.EnumMap[k][1]) = EnumKey(m, ResultString(sourceValue))}

\* Go ranges over a map in no defined order: the entry the loop returns is
\* any matching one. pick names it; 0 when no entry matches.
EnumPicks(sourceValue, m) ==
  IF Len(m.EnumMap) > 0 /\ EnumMatches(sourceValue, m) # {} THEN EnumMatches(sourceValue, m) ELSE {0}

\* applyEnumMapping: [ok, val, cause]
applyEnumMapping(sourceValue, m, pick) ==
  IF pick # 0 THEN [ok |-> TRUE, val |-> m.EnumMap[pick][2], cause |-> NoCause]
  ELSE IF m.EnumDefault.t # "none" THEN [ok |-> TRUE, val |-> m.EnumDefault, cause |-> NoCause]
  ELSE [ok |-> FALSE, val |-> None, cause |-> Cause("enum", ResultString(sourceValue))]

\* ----------------------------------------------------------- convertValue

StringT == <<"s", "t", "r", "i", "n", "g">>
IntT == <<"i", "n", "t">>
IntegerT == <<"i", "n", "t", "e", "g", "e", "r">>
FloatT == <<"f", "l", "o", "a", "t">>
NumberT == <<"n", "u", "m", "b", "e", "r">>
StringsT == <<"[", "]", "s", "t", "r", "i", "n", "g">>
IntsT == <<"[", "]", "i", "n", "t">>
BoolT == <<"b", "o", "o", "l">>
BooleanT == <<"b", "o", "o", "l", "e", "a", "n">>
TimeT == <<"t", "i", "m", "e">>

\* a Go slice built by append: nil, which marshals to null, when nothing was appended
Slice(a) == IF Len(a) = 0 THEN Null ELSE Arr(a)

\* the switch on strings.ToLower(mapping.Type): [ok, val, cause]
convertByType(sourceValue, m) ==
  LET ty == ToLower(m.Type)
      each == ForEachValues(sourceValue)
      good(v) == [ok |-> TRUE, val |-> v, cause |-> NoCause]
  IN CASE ty = StringT -> good(Str(ResultString(sourceValue)))
       [] ty \in {IntT, IntegerT} -> good(Num(ResultInt(sourceValue)))
       [] ty \in {FloatT, NumberT} -> good(Num(ResultInt(sourceValue)))
       [] ty = StringsT -> good(Slice([k \in 1..Len(each) |-> Str(ResultString(each[k]))]))
       [] ty = IntsT -> good(Slice([k \in 1..Len(each) |-> Num(ResultInt(each[k]))]))
       [] ty \in {BoolT, BooleanT} -> good(Bool(ResultBool(sourceValue)))
       [] ty = TimeT -> convertTime(sourceValue, m)
       [] OTHER -> good(ResultValue(sourceValue))

\* the enum result ends the conversion: there is no error and the value is not nil
EnumDecides(e) == e.ok /\ e.val.t # "none"

\* convertValue: [ok, val, cause]; pick is the enum entry the map iteration finds
convertValue(sourceValue, m, pick) ==
  IF Len(m.EnumMap) > 0
  THEN LET e == applyEnumMapping(sourceValue, m, pick)
       IN IF ~e.ok THEN e
          ELSE IF EnumDecides(e) THEN e
          ELSE convertByType(sourceValue, m)
  ELSE convertByType(sourceValue, m)

\* --------------------------------------------------------------- setValue

LBrace == <<"{">>
RBrace == <<"}">>
LBracket == <<"[">>
RBracket == <<"]">>

\* the test of setValue that sends a string to sjson.SetRaw
LooksLikeJSON(v) ==
  \/ HasPrefix(v, LBrace) /\ HasSuffix(v, RBrace)
  \/ HasPrefix(v, LBracket) /\ HasSuffix(v, RBracket)

\* every value that is no string written as the string of its text
WrittenValue_Stringify(value) ==
  IF value.t = "str"
  THEN IF LooksLikeJSON(value.v) THEN RawValue(value.v) ELSE value
  ELSE Str(Serialize(Marshal(value)))

\* what setValue hands to the document: a string goes in raw or quoted, any
\* other value as sjson.Set encodes it
WrittenValue(value) ==
  IF value.t = "str"
  THEN IF LooksLikeJSON(value.v) THEN RawValue(value.v) ELSE value
  ELSE Marshal(value)

\* setValue: [ok, doc]
setValue(target, m, value) == SjsonSet(target, m.TargetPath, WrittenValue(value))

\* ------------------------------------------------------------------ state

VARIABLES
  sourceJSON,   \* the source document
  config,       \* config.Mappings, the rule list
  targetJSON,   \* the target document under construction
  pc,           \* "rule": at the head of the rule loop; "elem": inside ForEach;
                \* "done": TransformJSON has returned; "conv", "set", "end": the
                \* steps of one convertValue / setValue call
  ri,           \* index of the rule being processed, from 1
  ei,           \* index of the collection element being processed, from 0
  ret,          \* what TransformJSON returned: [doc, err]
  run,          \* 1 for the first call, 2 for the call repeated on the same input
  first,        \* what the first call returned
  trace,        \* what the current call did, one event per rule or element
  conv          \* the result of the last convertValue call: [ok, val, cause]

vars == <<sourceJSON, config, targetJSON, pc, ri, ei, ret, run, first, trace, conv>>

\* ------------------------------------------------------------------- rules

Mapping(sp, tp, ty, dv, tf, ttf, tz, em, ic, ed) ==
  [SourcePath |-> sp, TargetPath |-> tp, Type |-> ty, DefaultValue |-> dv,
   TimeFormat |-> tf, TargetTimeFormat |-> ttf, Timezone |-> tz,
   EnumMap |-> em, EnumIgnoreCase |-> ic, EnumDefault |-> ed]

Wildcard == <<".", "#", ".">>

\* the test of TransformJSON for a collection rule
IsCollectionRule(m) == Contains(m.SourcePath, Wildcard) /\ Contains(m.TargetPath, Wildcard)

\* the null test left out
Absent_ExistsOnly(sourceValue) == ~Exists(sourceValue)

\* the source value is missing or null
Absent(sourceValue) == ~Exists(sourceValue) \/ sourceValue.t = "null"

\* mapping.DefaultValue != nil
HasDefault(m) == m.DefaultValue.t # "none"

\* processCollectionMapping: the source path split at ".#"
PathParts(m) == Split(m.SourcePath, <<".", "#">>)

CollectionPath(m) == PathParts(m)[1]

ElementPath(m) == Join(Tail(PathParts(m)), <<"#">>)

\* the collection a collection rule iterates
Collection(src, m) == Get(src, CollectionPath(m))

\* a missing collection taken for an empty one
CollectionOk_MissingIsEmpty(src, m) ==
  Len(PathParts(m)) >= 2 /\ (IsArray(Collection(src, m)) \/ ~Exists(Collection(src, m)))

\* the source path splits into a collection path and an element path, and
\* the collection path resolves to an array
CollectionOk(src, m) == Len(PathParts(m)) >= 2 /\ IsArray(Collection(src, m))

\* the rule of element index of a collection rule
ElementMapping(m, index) ==
  [m EXCEPT !.SourcePath = CollectionPath(m) \o Dot \o Itoa(index) \o ElementPath(m),
            !.TargetPath = ReplaceAll(m.TargetPath, Wildcard, Dot \o Itoa(index) \o Dot)]

\* ------------------------------------------------------------ TransformJSON

Event(ev, rule, elem) == [ev |-> ev, rule |-> rule, elem |-> elem]

NoRet == [doc |-> <<>>, err |-> NoErr]

NoConv == [ok |-> FALSE, val |-> None, cause |-> NoCause]

CurRule == config[ri]

AtRule == pc = "rule" /\ ri <= Len(config)

\* return "", fmt.Errorf(...)
Fail(ev, elem, err) ==
  /\ pc' = "done"
  /\ ret' = [doc |-> <<>>, err |-> err]
  /\ trace' = Append(trace, Event(ev, ri, elem))
  /\ UNCHANGED <<sourceJSON, config, targetJSON, ri, ei, run, first>>

\* the rule is finished: continue with the next one
NextRule(ev, elem, doc) ==
  /\ pc' = "rule"
  /\ ri' = ri + 1
  /\ targetJSON' = doc
  /\ trace' = Append(trace, Event(ev, ri, elem))
  /\ UNCHANGED <<sourceJSON, config, ei, ret, run, first>>

\* source missing or null, no default: the rule is skipped
RuleSkip ==
  /\ AtRule /\ ~IsCollectionRule(CurRule)
  /\ Absent(Get(sourceJSON, CurRule.SourcePath))
  /\ ~HasDefault(CurRule)
  /\ conv' = conv
  /\ NextRule("skip", -1, targetJSON)

\* source missing or null, default set: the default is written
RuleDefault ==
  /\ AtRule /\ ~IsCollectionRule(CurRule)
  /\ Absent(Get(sourceJSON, CurRule.SourcePath))
  /\ HasDefault(CurRule)
  /\ LET w == setValue(targetJSON, CurRule, CurRule.DefaultValue)
     IN /\ w.ok
        /\ NextRule("default", -1, w.doc)
  /\ conv' = conv

\* ... and the write of the default fails
RuleDefaultError ==
  /\ AtRule /\ ~IsCollectionRule(CurRule)
  /\ Absent(Get(sourceJSON, CurRule.SourcePath))
  /\ HasDefault(CurRule)
  /\ ~setValue(targetJSON, CurRule, CurRule.DefaultValue).ok
  /\ conv' = conv
  /\ Fail("writefail", -1, Error("default", CurRule.TargetPath, Cause("write", <<>>)))

\* the source value does not convert
RuleConvertError ==
  /\ AtRule /\ ~IsCollectionRule(CurRule)
  /\ LET sv == Get(sourceJSON, CurRule.SourcePath)
     IN /\ ~Absent(sv)
        /\ \E pick \in EnumPicks(sv, CurRule) :
             LET c == convertValue(sv, CurRule, pick)
             IN /\ ~c.ok
                /\ conv' = c
                /\ Fail("convfail", -1, Error("convert", CurRule.SourcePath, c.cause))

\* the source value converts and is written
RuleWrite ==
  /\ AtRule /\ ~IsCollectionRule(CurRule)
  /\ LET sv == Get(sourceJSON, CurRule.SourcePath)
     IN /\ ~Absent(sv)
        /\ \E pick \in EnumPicks(sv, CurRule) :
             LET c == convertValue(sv, CurRule, pick)
                 w == setValue(targetJSON, CurRule, c.val)
             IN /\ c.ok
                /\ w.ok
                /\ conv' = c
                /\ NextRule("write", -1, w.doc)

\* the source value converts and the write fails
RuleWriteError ==
  /\ AtRule /\ ~IsCollectionRule(CurRule)
  /\ LET sv == Get(sourceJSON, CurRule.SourcePath)
     IN /\ ~Absent(sv)
        /\ \E pick \in EnumPicks(sv, CurRule) :
             LET c == convertValue(sv, CurRule, pick)
             IN /\ c.ok
                /\ ~setValue(targetJSON, CurRule, c.val).ok
                /\ conv' = c
                /\ Fail("writefail", -1, Error("set", CurRule.TargetPath, Cause("write", <<>>)))

\* the rule list is exhausted: return targetJSON, nil
Return ==
  /\ pc = "rule" /\ ri > Len(config)
  /\ pc' = "done"
  /\ ret' = [doc |-> Serialize(targetJSON), err |-> NoErr]
  /\ UNCHANGED <<sourceJSON, config, targetJSON, ri, ei, run, first, trace, conv>>

\* ------------------------------------------------- processCollectionMapping

AtCollection == AtRule /\ IsCollectionRule(CurRule)

\* the split of the source path gives no element part, or the collection path
\* is not an array: the transformation fails
CollectionNotArray ==
  /\ AtCollection
  /\ ~CollectionOk(sourceJSON, CurRule)
  /\ conv' = conv
  /\ Fail("notarray", -1,
          Error("collection", CurRule.SourcePath,
                Cause(IF Len(PathParts(CurRule)) < 2 THEN "format" ELSE "notarray",
                      IF Len(PathParts(CurRule)) < 2 THEN CurRule.SourcePath
                      ELSE CollectionPath(CurRule))))

\* the collection is an array: ForEach starts at its first element
CollectionEnter ==
  /\ AtCollection
  /\ CollectionOk(sourceJSON, CurRule)
  /\ pc' = "elem"
  /\ ei' = 0
  /\ trace' = Append(trace, Event("enter", ri, -1))
  /\ UNCHANGED <<sourceJSON, config, targetJSON, ri, ret, run, first, conv>>

AtElement == pc = "elem" /\ ei < Len(Collection(sourceJSON, CurRule).v)

CurElement == ElementMapping(CurRule, ei)

\* the iterator returns true: ForEach goes on with the next element
NextElement(ev, doc) ==
  /\ ei' = ei + 1
  /\ targetJSON' = doc
  /\ trace' = Append(trace, Event(ev, ri, ei))
  /\ UNCHANGED <<sourceJSON, config, pc, ri, ret, run, first>>

\* the iterator returns false: ForEach stops, processCollectionMapping
\* returns nil and TransformJSON continues with the next rule
StopElements(ev) ==
  /\ pc' = "rule"
  /\ ri' = ri + 1
  /\ trace' = Append(trace, Event(ev, ri, ei))
  /\ UNCHANGED <<sourceJSON, config, targetJSON, ei, ret, run, first>>

ElemSkip ==
  /\ AtElement
  /\ Absent(Get(sourceJSON, CurElement.SourcePath))
  /\ ~HasDefault(CurElement)
  /\ conv' = conv
  /\ NextElement("skip", targetJSON)

ElemDefault ==
  /\ AtElement
  /\ Absent(Get(sourceJSON, CurElement.SourcePath))
  /\ HasDefault(CurElement)
  /\ LET w == setValue(targetJSON, CurElement, CurElement.DefaultValue)
     IN /\ w.ok
        /\ NextElement("default", w.doc)
  /\ conv' = conv

ElemDefaultError ==
  /\ AtElement
  /\ Absent(Get(sourceJSON, CurElement.SourcePath))
  /\ HasDefault(CurElement)
  /\ ~setValue(targetJSON, CurElement, CurElement.DefaultValue).ok
  /\ conv' = conv
  /\ StopElements("writefail")

\* the element does not convert: a line is printed and ForEach goes on
ElemConvertSkip ==
  /\ AtElement
  /\ LET sv == Get(sourceJSON, CurElement.SourcePath)
     IN /\ ~Absent(sv)
        /\ \E pick \in EnumPicks(sv, CurElement) :
             LET c == convertValue(sv, CurElement, pick)
             IN /\ ~c.ok
                /\ conv' = c
                /\ NextElement("convfail", targetJSON)

ElemWrite ==
  /\ AtElement
  /\ LET sv == Get(sourceJSON, CurElement.SourcePath)
     IN /\ ~Absent(sv)
        /\ \E pick \in EnumPicks(sv, CurElement) :
             LET c == convertValue(sv, CurElement, pick)
                 w == setValue(targetJSON, CurElement, c.val)
             IN /\ c.ok
                /\ w.ok
                /\ conv' = c
                /\ NextElement("write", w.doc)

ElemWriteError ==
  /\ AtElement
  /\ LET sv == Get(sourceJSON, CurElement.SourcePath)
     IN /\ ~Absent(sv)
        /\ \E pick \in EnumPicks(sv, CurElement) :
             LET c == convertValue(sv, CurElement, pick)
             IN /\ c.ok
                /\ ~setValue(targetJSON, CurElement, c.val).ok
                /\ conv' = c
                /\ StopElements("writefail")

\* ForEach has visited every element: processCollectionMapping returns nil
CollectionDone ==
  /\ pc = "elem" /\ ei = Len(Collection(sourceJSON, CurRule).v)
  /\ pc' = "rule"
  /\ ri' = ri + 1
  /\ trace' = Append(trace, Event("leave", ri, -1))
  /\ UNCHANGED <<sourceJSON, config, targetJSON, ei, ret, run, first, conv>>

\* the caller runs TransformJSON again on the same document and rule list
Rerun ==
  /\ pc = "done" /\ run = 1
  /\ run' = 2
  /\ first' = ret
  /\ pc' = "rule"
  /\ ri' = 1
  /\ ei' = 0
  /\ targetJSON' = Obj(<<>>)
  /\ ret' = NoRet
  /\ trace' = <<>>
  /\ conv' = NoConv
  /\ UNCHANGED <<sourceJSON, config>>

\* ------------------------------------------------------------------ inputs

\* elements of the source array "u"
MaxElems == 2

NoText == <<>>
NoEnum == <<>>

AllUsers ==
  << Obj(<< <<<<"n">>, Str(<<"a">>)>> >>),
     Obj(<< <<<<"n">>, Str(<<"q">>)>>, <<<<"t">>, Num(<<"1", "6", "2", "0", "0", "0", "0", "0", "0", "0">>)>> >>),
     Obj(<< <<<<"t">>, Num(<<"5">>)>> >>),
     Obj(<< <<<<"n">>, Str(<<"a">>)>>, <<<<"t">>, Num(<<"7">>)>> >>) >>

\* {"s":"a","z":null,"u":[{"n":"a"},{"n":"q","t":1620000000},...]}
SourceDoc ==
  Obj(<< <<<<"s">>, Str(<<"a">>)>>, <<<<"z">>, Null>>, <<<<"u">>, Arr(SubSeq(AllUsers, 1, MaxElems))>> >>)

\* a plain rule: source path, target path, type, default value
Plain(sp, tp, ty, dv) == Mapping(sp, tp, ty, dv, NoText, NoText, NoText, NoEnum, FALSE, None)

\* a rule with an enum map
Enum(sp, tp, em, ic, ed) == Mapping(sp, tp, StringT, None, NoText, NoText, NoText, em, ic, ed)

\* the rules a configuration is drawn from
Rules ==
  << Plain(<<"s">>, <<"o", ".", "s">>, StringT, None),
     Plain(<<"m">>, <<"o", ".", "d">>, StringT, Str(<<"d", "v">>)),
     Plain(<<"m">>, <<"o", ".", "j">>, StringT, Str(<<"[", "1", ",", "2", "]">>)),
     Plain(<<"m">>, <<"o", ".", "g">>, StringT, Str(<<"{", "x", "}">>)),
     Mapping(<<"m">>, <<"o", ".", "n">>, StringT, Num(<<"5">>), NoText, NoText, NoText,
             << <<<<"a">>, Str(<<"A">>)>> >>, FALSE, Str(<<"U">>)),
     Plain(<<"z">>, <<"o", ".", "z">>, StringT, None),
     Plain(<<"m">>, <<"o", ".", "x">>, StringT, None),
     Enum(<<"s">>, <<"o", ".", "e">>, << <<<<"b">>, Str(<<"B">>)>> >>, FALSE, None),
     Enum(<<"s">>, <<"o", ".", "e">>, << <<<<"A">>, Str(<<"X">>)>>, <<<<"a">>, Str(<<"Y">>)>> >>, TRUE, None),
     Plain(<<"u", ".", "#", ".", "n">>, <<"p", ".", "#", ".", "n">>, StringT, None),
     Enum(<<"u", ".", "#", ".", "n">>, <<"p", ".", "#", ".", "e">>, << <<<<"q">>, Str(<<"Q">>)>> >>, FALSE, None),
     Plain(<<"s", ".", "#", ".", "n">>, <<"p", ".", "#", ".", "n">>, StringT, Str(<<"d", "v">>)),
     Plain(<<"m", ".", "#", ".", "n">>, <<"p", ".", "#", ".", "n">>, StringT, None),
     Plain(<<"z", ".", "#", ".", "n">>, <<"p", ".", "#", ".", "n">>, StringT, Str(<<"d", "v">>)),
     Plain(<<"s">>, <<"p", ".", "k">>, StringT, None),
     Plain(<<"u", ".", "#", ".", "n">>, <<"p", ".", "k", ".", "#", ".", "n">>, StringT, None),
     Mapping(<<"u", ".", "#", ".", "t">>, <<"p", ".", "#", ".", "t">>, TimeT, Num(<<"0">>), NoText, Unix, NoText, NoEnum, FALSE, None),
     Plain(<<"u", ".", "#", ".", "t">>, <<"p", ".", "k", ".", "#", ".", "t">>, IntT, Num(<<"0">>)),
     Plain(<<"m">>, <<"p", ".", "k">>, StringT, Str(<<"d", "v">>)),
     Plain(<<"u", ".", "#", ".", "t">>, <<"p", ".", "#", ".", "t">>, IntT, None),
     Plain(<<"u", ".", "#", ".", "n">>, <<"o", ".", "a", "l", "l">>, NoText, None) >>

\* the rule lists of at most MaxRules rules
Configs ==
  UNION {{[k \in 1..n |-> Rules[f[k]]] : f \in [1..n -> 1..Len(Rules)]} : n \in 1..MaxRules}

\* TransformJSON is called: targetJSON := "{}"
Init ==
  /\ sourceJSON = SourceDoc
  /\ config \in Configs
  /\ targetJSON = Obj(<<>>)
  /\ pc = "rule"
  /\ ri = 1
  /\ ei = 0
  /\ ret = NoRet
  /\ run = 1
  /\ first = NoRet
  /\ trace = <<>>
  /\ conv = NoConv

Next ==
  \/ RuleSkip
  \/ RuleDefault
  \/ RuleDefaultError
  \/ RuleConvertError
  \/ RuleWrite
  \/ RuleWriteError
  \/ CollectionNotArray
  \/ CollectionEnter
  \/ ElemSkip
  \/ ElemDefault
  \/ ElemDefaultError
  \/ ElemConvertSkip
  \/ ElemWrite
  \/ ElemWriteError
  \/ CollectionDone
  \/ Return
  \/ Rerun

Spec == Init /\ [][Next]_vars

\* ------------------------------------------ one convertValue / setValue call
\* The conversion and the write of one non-collection rule, on their own: the
\* rule reads "v" of {"v": value} and writes "o" of an empty target.

\* source values; None is a document without "v"
ConvValues ==
  << None, Null, Str(<<"a">>), Str(<<"A">>), Str(<<"b">>), Str(<<"{", "x", "}">>), Str(<<"[", "1", ",", "2", "]">>), Str(<<"[", "x">>),
     Str(<<"{", "\"", "k", "\"", ":", "1", "}">>), Str(SampleDate), Str(<<"7">>), Bool(TRUE),
     Num(<<"0">>), Num(<<"5">>), Num(<<"1", "6", "2", "0", "0", "0", "0", "0", "0", "0">>), Num(<<"2", "1", "4", "7", "4", "8", "3", "6", "4", "7">>), Num(<<"2", "1", "4", "7", "4", "8", "3", "6", "4", "8">>),
     Num(<<"1", "6", "2", "0", "0", "0", "0", "0", "0", "0", "0", "0", "0">>),
     Arr(<<Num(<<"1">>), Str(<<"a">>)>>), Obj(<< <<<<"b">>, Num(<<"1">>)>>, <<<<"a">>, Str(<<"x">>)>> >>) >>

ConvTypes ==
  << StringT, <<"S", "t", "r", "i", "n", "g">>, IntT, NumberT, BooleanT, TimeT, <<"T", "I", "M", "E">>, StringsT, IntsT, <<"o", "b", "j", "e", "c", "t">>, NoText >>

\* enum_map, enum_ignore_case, enum_default
ConvEnums ==
  << [em |-> NoEnum, ic |-> FALSE, ed |-> None],
     [em |-> << <<<<"a">>, Str(<<"A">>)>>, <<<<"5">>, Num(<<"9">>)>> >>, ic |-> FALSE, ed |-> None],
     [em |-> << <<<<"a">>, None>> >>, ic |-> FALSE, ed |-> None],
     [em |-> << <<<<"A">>, Str(<<"X">>)>>, <<<<"a">>, Str(<<"Y">>)>> >>, ic |-> TRUE, ed |-> Str(<<"U">>)],
     [em |-> << <<<<"b">>, Str(<<"[", "1", ",", "2", "]">>)>>, <<<<"t", "r", "u", "e">>, Str(<<"{", "x", "}">>)>> >>, ic |-> FALSE, ed |-> Str(<<"{", "y", "}">>)],
     [em |-> << <<<<"A", "c", "t", "i", "v", "e">>, Str(<<"A">>)>> >>, ic |-> TRUE, ed |-> Num(<<"0">>)] >>

\* time_format, target_time_format, timezone
ConvTimes ==
  << [tf |-> NoText, ttf |-> NoText, tz |-> NoText],
     [tf |-> NoText, ttf |-> Unix, tz |-> NoText],
     [tf |-> NoText, ttf |-> UnixMs, tz |-> NoText],
     [tf |-> DayFirstLayout, ttf |-> Unix, tz |-> Shanghai],
     [tf |-> NoText, ttf |-> UnixMs, tz |-> UTC],
     [tf |-> NoText, ttf |-> Unix, tz |-> <<"M", "a", "r", "s", "/", "B", "a", "s", "e">>],
     [tf |-> NoText, ttf |-> NoText, tz |-> <<"M", "a", "r", "s", "/", "B", "a", "s", "e">>],
     [tf |-> NoText, ttf |-> DateLayout, tz |-> UTC] >>

ConvDefaults == << None, Str(<<"d", "v">>), Str(<<"[", "1", ",", "2", "]">>), Str(<<"{", "x", "}">>), Num(<<"5">>) >>

ConvDoc(value) == IF Exists(value) THEN Obj(<< <<<<"v">>, value>> >>) ELSE Obj(<<>>)

ConvRule(ty, e, tm, dv) == Mapping(<<"v">>, <<"o">>, ty, dv, tm.tf, tm.ttf, tm.tz, e.em, e.ic, e.ed)

InitConvert ==
  /\ \E i \in 1..Len(ConvValues) : sourceJSON = ConvDoc(ConvValues[i])
  /\ \E a \in 1..Len(ConvTypes), b \in 1..Len(ConvEnums),
        c \in 1..Len(ConvTimes), d \in 1..Len(ConvDefaults) :
       config = <<ConvRule(ConvTypes[a], ConvEnums[b], ConvTimes[c], ConvDefaults[d])>>
  /\ targetJSON = Obj(<<>>)
  /\ pc = "conv"
  /\ ri = 1
  /\ ei = 0
  /\ ret = NoRet
  /\ run = 1
  /\ first = NoRet
  /\ trace = <<>>
  /\ conv = NoConv

ConvStep(ev, to) ==
  /\ pc' = to
  /\ trace' = Append(trace, Event(ev, ri, -1))
  /\ UNCHANGED <<sourceJSON, config, targetJSON, ri, ei, ret, run, first>>

\* the source value is there: convertValue is called
ConvCall ==
  /\ pc = "conv"
  /\ LET sv == Get(sourceJSON, CurRule.SourcePath)
     IN /\ ~Absent(sv)
        /\ \E pick \in EnumPicks(sv, CurRule) :
             /\ conv' = convertValue(sv, CurRule, pick)
             /\ ConvStep("convert", IF conv'.ok THEN "set" ELSE "end")

\* the source value is missing or null: the default goes to setValue as it is
ConvDefault ==
  /\ pc = "conv"
  /\ Absent(Get(sourceJSON, CurRule.SourcePath))
  /\ HasDefault(CurRule)
  /\ conv' = [ok |-> TRUE, val |-> CurRule.DefaultValue, cause |-> NoCause]
  /\ ConvStep("default", "set")

\* ... and without a default nothing is written
ConvSkip ==
  /\ pc = "conv"
  /\ Absent(Get(sourceJSON, CurRule.SourcePath))
  /\ ~HasDefault(CurRule)
  /\ conv' = conv
  /\ ConvStep("skip", "end")

\* setValue is called with the converted value or the default
SetCall ==
  /\ pc = "set"
  /\ LET w == setValue(targetJSON, CurRule, conv.val)
     IN /\ targetJSON' = w.doc
        /\ ret' = [doc |-> Serialize(w.doc), err |-> NoErr]
  /\ pc' = "end"
  /\ trace' = Append(trace, Event("set", ri, -1))
  /\ UNCHANGED <<sourceJSON, config, ri, ei, run, first, conv>>

NextConvert == ConvCall \/ ConvDefault \/ ConvSkip \/ SetCall

SpecConvert == InitConvert /\ [][NextConvert]_vars

\* ------------------------------------------------------------------ claims

\* the same kind of value with the same text
SameValue(a, b) == a.t = b.t /\ Serialize(a) = Serialize(b)

LastEvent == IF Len(trace) = 0 THEN Event("none", 0, -1) ELSE trace[Len(trace)]

\* an event at which a hard error was met: a failed write, a collection path
\* that is no array, a failed conversion outside a collection
IsHardEvent(e) == e.ev \in {"writefail", "notarray"} \/ (e.ev = "convfail" /\ e.elem = -1)

\* C6: a non-collection rule whose source value is missing or null and that has
\* no default leaves the target document as it was, raises no error, and the
\* loop goes on with the next rule.
C6_SkipOnAbsence ==
  [][(/\ pc = "rule" /\ ri <= Len(config)
      /\ ~(Contains(config[ri].SourcePath, Wildcard) /\ Contains(config[ri].TargetPath, Wildcard))
      /\ Get(sourceJSON, config[ri].SourcePath).t \in {"none", "null"}
      /\ config[ri].DefaultValue.t = "none")
     => (/\ Serialize(targetJSON') = Serialize(targetJSON)
         /\ pc' = "rule"
         /\ ri' = ri + 1
         /\ ret' = ret)]_vars

\* a rule wrote, the next rule was skipped, and the call returned the document
\* of the first
C6_Witness ==
  /\ pc = "done" /\ ret.err = NoErr
  /\ Len(trace) = 2
  /\ trace[1].ev = "write" /\ trace[1].elem = -1
  /\ trace[2].ev = "skip" /\ trace[2].elem = -1 /\ trace[2].rule = 2
  /\ ret.doc = <<"{", "\"", "o", "\"", ":", "{", "\"", "s", "\"", ":", "\"", "a", "\"", "}", "}">>

\* C1: TransformJSON returns either a nil error with the document of the fully
\* applied rule list, no hard error having been met on the way, or an error
\* with an empty document; a hard error of a non-collection rule ends the call
\* at that rule with that rule's error.
C1_NoPartialSuccess ==
  /\ pc = "done" =>
       IF ret.err = NoErr
       THEN /\ ret.doc = Serialize(targetJSON)
            /\ ri = Len(config) + 1
            /\ \A k \in 1..Len(trace) : ~IsHardEvent(trace[k])
       ELSE ret.doc = <<>>
  /\ \A k \in 1..Len(trace) :
       (IsHardEvent(trace[k]) /\ trace[k].elem = -1) =>
         /\ k = Len(trace) /\ pc = "done" /\ ri = trace[k].rule
         /\ ret.err # NoErr
         /\ ret.err.path \in {config[ri].SourcePath, config[ri].TargetPath}

\* the elements of rule r that the current call has processed, in order
RECURSIVE ElemsOf(_, _)
ElemsOf(tr, r) ==
  IF Len(tr) = 0 THEN <<>>
  ELSE (IF tr[1].rule = r /\ tr[1].elem # -1 THEN <<tr[1].elem>> ELSE <<>>) \o ElemsOf(Tail(tr), r)

\* the call is past rule r
Finished(r) == r < ri \/ (pc = "done" /\ ret.err = NoErr)

\* C2: when the collection path of a collection rule is an array of N
\* elements, every index 0..N-1 is processed, in ascending order, also after
\* an element that did not convert.
C2_EveryElementProcessed ==
  \A r \in 1..Len(config) :
    (/\ pc \in {"rule", "elem", "done"}
     /\ Finished(r)
     /\ Contains(config[r].SourcePath, Wildcard) /\ Contains(config[r].TargetPath, Wildcard))
    => LET n == Len(Get(sourceJSON, SubSeq(config[r].SourcePath, 1,
                                           IndexOf(config[r].SourcePath, Wildcard) - 1)).v)
       IN ElemsOf(trace, r) = [k \in 1..n |-> k - 1]

\* C3: a failed write is a hard error wherever it happens: the call is over,
\* with an error and no document.
C3_WriteFailureIsHard ==
  \A k \in 1..Len(trace) :
    trace[k].ev = "writefail" => (pc = "done" /\ ret.err # NoErr /\ ret.doc = <<>>)

\* C7: the call repeated on the same document and rule list returns what the
\* first call returned.
C7_Deterministic == (pc = "done" /\ run = 2) => ret = first

\* C8: a collection rule whose collection path is no array, missing and null
\* included, ends the call with an error naming the path, no document, and no
\* later rule processed, whether or not the rule has a default.
C8_CollectionMustBeArray ==
  [][(/\ pc = "rule" /\ ri <= Len(config)
      /\ Contains(config[ri].SourcePath, Wildcard) /\ Contains(config[ri].TargetPath, Wildcard)
      /\ Get(sourceJSON, SubSeq(config[ri].SourcePath, 1,
                                IndexOf(config[ri].SourcePath, Wildcard) - 1)).t # "arr")
     => (/\ pc' = "done"
         /\ ri' = ri
         /\ ret'.doc = <<>>
         /\ ret'.err.stage # "nil"
         /\ ret'.err.cause.arg = SubSeq(config[ri].SourcePath, 1,
                                        IndexOf(config[ri].SourcePath, Wildcard) - 1)
         /\ Serialize(targetJSON') = Serialize(targetJSON))]_vars

\* a rule wrote, then a collection rule with a default found a string where
\* the array should be, and the call returned the error
C8_Witness ==
  /\ pc = "done" /\ ret.err.stage = "collection" /\ ret.doc = <<>>
  /\ Len(trace) = 2
  /\ trace[1].ev = "write"
  /\ trace[2].ev = "notarray" /\ trace[2].rule = 2
  /\ config[2].DefaultValue.t = "str"
  /\ Get(sourceJSON, <<"s">>).t = "str" /\ ret.err.cause.arg = <<"s">>
  /\ Len(targetJSON.v) = 1

\* the default of a non-collection rule has just been written
DefaultWritten == LastEvent.ev = "default" /\ LastEvent.elem = -1 /\ pc \in {"rule", "done"}

TheRule == config[1]

TheSource == Get(sourceJSON, TheRule.SourcePath)

\* convertValue has been called
Converted == pc \in {"set", "end"} /\ Len(trace) >= 1 /\ trace[1].ev = "convert"

\* the enum entries whose key equals the source string, both lower-cased when
\* enum_ignore_case is set
C4_Matching ==
  {k \in 1..Len(TheRule.EnumMap) :
     IF TheRule.EnumIgnoreCase
     THEN ToLower(TheRule.EnumMap[k][1]) = ToLower(ResultString(TheSource))
     ELSE TheRule.EnumMap[k][1] = ResultString(TheSource)}

\* C4: with a non-empty enum map, convertValue returns the value of a matching
\* entry, else enum_default when set, else fails with the unmapped-enum error;
\* never the source value converted by type.
C4_EnumPrecedence ==
  (Converted /\ Len(TheRule.EnumMap) > 0) =>
    IF C4_Matching # {}
    THEN conv.ok /\ \E k \in C4_Matching : SameValue(conv.val, TheRule.EnumMap[k][2])
    ELSE IF TheRule.EnumDefault.t # "none"
    THEN conv.ok /\ SameValue(conv.val, TheRule.EnumDefault)
    ELSE ~conv.ok /\ conv.cause.kind = "enum"

\* C9: a string handed to setValue is in the document as a raw fragment exactly
\* when it is a JSON object or array literal, and as that string otherwise; the
\* document is valid JSON.
C9_RawIffLiteral ==
  (pc = "end" /\ LastEvent.ev = "set" /\ conv.val.t = "str") =>
    LET got == Get(targetJSON, TheRule.TargetPath)
    IN /\ IF IsJSONLiteral(conv.val.v)
          THEN got.t \in {"obj", "arr"} /\ Serialize(got) = conv.val.v
          ELSE got.t = "str" /\ got.v = conv.val.v
       /\ IsValidJSON(targetJSON)

\* a rule of type time without enum map, on a number, with target format
\* "unix", "unix_ms" or none
C10_Case ==
  /\ Converted
  /\ ToLower(TheRule.Type) = <<"t", "i", "m", "e">>
  /\ Len(TheRule.EnumMap) = 0
  /\ TheSource.t = "num"
  /\ TheRule.TargetTimeFormat \in {<<>>, <<"u", "n", "i", "x">>, <<"u", "n", "i", "x", "_", "m", "s">>}

\* n <= 2147483647 is seconds, above it milliseconds; "unix" gives seconds,
\* "unix_ms" and no format give milliseconds
C10_Expected(n, ttf) ==
  IF NumLeq(n, <<"2", "1", "4", "7", "4", "8", "3", "6", "4", "7">>)
  THEN IF ttf = <<"u", "n", "i", "x">> THEN n ELSE IF n = <<"0">> THEN n ELSE n \o <<"0", "0", "0">>
  ELSE IF ttf = <<"u", "n", "i", "x">> THEN SubSeq(n, 1, Len(n) - 3) ELSE n

\* C10 as stated: the output is the expected number whatever the timezone.
C10_NumericTime ==
  C10_Case =>
    /\ conv.ok /\ conv.val.t = "num"
    /\ conv.val.v = C10_Expected(TheSource.v, TheRule.TargetTimeFormat)

\* C10 as amended: ... when the timezone is empty or resolves; with a timezone
\* that does not resolve the conversion fails with the timezone error.
C10_NumericTimeZoneChecked ==
  C10_Case =>
    IF Len(TheRule.Timezone) = 0 \/ LoadLocationOk(TheRule.Timezone)
    THEN /\ conv.ok /\ conv.val.t = "num"
         /\ conv.val.v = C10_Expected(TheSource.v, TheRule.TargetTimeFormat)
    ELSE ~conv.ok /\ conv.cause.kind = "timezone" /\ conv.cause.arg = TheRule.Timezone

\* 1620000000 with "unix_ms" gave 1620000000000, in the zone UTC
C10_Witness ==
  /\ C10_Case
  /\ TheSource.v = <<"1", "6", "2", "0", "0", "0", "0", "0", "0", "0">>
  /\ TheRule.TargetTimeFormat = <<"u", "n", "i", "x", "_", "m", "s">>
  /\ TheRule.Timezone = UTC
  /\ conv.ok /\ conv.val = Num(<<"1", "6", "2", "0", "0", "0", "0", "0", "0", "0", "0", "0", "0">>)

====
